---- MODULE Spec2Model ----
(***************************************************************************)
(* Model of uniongazetteer/__init__.py: the field normalizer preProcess,   *)
(* the two CSV loaders readData / readMessyData and the record-linkage run *)
(* of main().  Strings are sequences of one-character strings; the dedupe  *)
(* library is an environment whose calls return or raise.                  *)
(***************************************************************************)
EXTENDS Integers, Sequences, FiniteSets, TLC

VARIABLES
    npc,        \* position of the normalizer harness: "in", "once", "twice"
    column,     \* the raw string handed to preProcess
    once,       \* preProcess(column)
    twice,      \* preProcess(once) when once is a string, else None
    pc,         \* position of main()
    header,     \* messy CSV: reader.fieldnames
    messy,      \* messy CSV: its data rows, raw, in file order
    canon,      \* canonical CSV: its data rows, raw, in file order
    settings0,  \* settings file at start-up
    training0,  \* training file at start-up
    settingsFile, \* settings file now
    trainingFile, \* training file now
    data_1,     \* main(): data_1
    data_2,     \* main(): data_2
    calls,      \* dedupe calls made so far, in order
    linked_records, \* main(): linked_records
    match,      \* main(): match
    output,     \* rows written to the output CSV (header excluded)
    outHeader,  \* header written to the output CSV
    error       \* the exception that ended the run, or NoError

vars == <<npc, column, once, twice, pc, header, messy, canon, settings0,
          training0, settingsFile, trainingFile, data_1, data_2, calls,
          linked_records, match, output, outHeader, error>>

normVars == <<npc, column, once, twice>>
mainVars == <<pc, header, messy, canon, settings0, training0, settingsFile,
              trainingFile, data_1, data_2, calls, linked_records, match,
              output, outHeader, error>>

-----------------------------------------------------------------------------
(* Characters and strings *)

\* Python's None, kept a sequence so that it compares with strings.
None == <<"<None>">>

\* no exception has ended the run
NoError == <<>>

Whitespace == {" ", "\n", "\t"}
UpperChars == {"A", "F", "L", "N"}
LowerChars == {"a", "b", "c", "f", "l", "n", "o"}
Digits     == {"0", "1", "2", "3", "7"}

\* \w of the re module
IsWord(c) == c \in UpperChars \cup LowerChars \cup Digits \cup {"_"}

\* str.lower on one character
LowerChar(c) ==
    CASE c = "A" -> "a"
      [] c = "F" -> "f"
      [] c = "L" -> "l"
      [] c = "N" -> "n"
      [] OTHER   -> c

\* \b at the gap before s[p]: exactly one side is a word character
WordBoundary(s, p) ==
    LET before == p - 1 >= 1 /\ p - 1 <= Len(s) /\ IsWord(s[p - 1])
        after  == p >= 1 /\ p <= Len(s) /\ IsWord(s[p])
    IN  before # after

\* the pattern matches s at position i
MatchesAt(pat, bounded, s, i) ==
    /\ i + Len(pat) - 1 <= Len(s)
    /\ SubSeq(s, i, i + Len(pat) - 1) = pat
    /\ bounded => WordBoundary(s, i) /\ WordBoundary(s, i + Len(pat))

RECURSIVE SubFrom(_, _, _, _, _)
SubFrom(pat, bounded, repl, s, i) ==
    IF i > Len(s) THEN <<>>
    ELSE IF MatchesAt(pat, bounded, s, i)
         THEN repl \o SubFrom(pat, bounded, repl, s, i + Len(pat))
         ELSE <<s[i]>> \o SubFrom(pat, bounded, repl, s, i + 1)

\* re.sub(pat, repl, s) for a literal pattern
ReSub(pat, repl, s) == SubFrom(pat, FALSE, repl, s, 1)

\* re.sub(r"\bpat\b", repl, s) for a literal pattern
ReSubWord(pat, repl, s) == SubFrom(pat, TRUE, repl, s, 1)

\* first position at or after i that holds no space
RECURSIVE SkipSpaces(_, _)
SkipSpaces(s, i) ==
    IF i <= Len(s) /\ s[i] = " " THEN SkipSpaces(s, i + 1) ELSE i

RECURSIVE CollapseFrom(_, _)
CollapseFrom(s, i) ==
    IF i > Len(s) THEN <<>>
    ELSE IF s[i] = " " /\ i + 1 <= Len(s) /\ s[i + 1] = " "
         THEN <<" ">> \o CollapseFrom(s, SkipSpaces(s, i))
         ELSE <<s[i]>> \o CollapseFrom(s, i + 1)

\* re.sub("  +", " ", s)
CollapseSpaces(s) == CollapseFrom(s, 1)

RECURSIVE LStrip(_, _)
LStrip(s, chars) ==
    IF s # <<>> /\ Head(s) \in chars THEN LStrip(Tail(s), chars) ELSE s

RECURSIVE RStrip(_, _)
RStrip(s, chars) ==
    IF s # <<>> /\ s[Len(s)] \in chars
    THEN RStrip(SubSeq(s, 1, Len(s) - 1), chars)
    ELSE s

\* str.strip(chars); str.strip() is Strip(s, Whitespace)
Strip(s, chars) == RStrip(LStrip(s, chars), chars)

\* str.lower
Lower(s) == [i \in 1..Len(s) |-> LowerChar(s[i])]

\* first position at or after i that holds whitespace, or Len(s) + 1
RECURSIVE TokenEnd(_, _)
TokenEnd(s, i) ==
    IF i <= Len(s) /\ s[i] \notin Whitespace THEN TokenEnd(s, i + 1) ELSE i

RECURSIVE SplitFrom(_, _)
SplitFrom(s, i) ==
    IF i > Len(s) THEN <<>>
    ELSE IF s[i] \in Whitespace THEN SplitFrom(s, i + 1)
         ELSE <<SubSeq(s, i, TokenEnd(s, i) - 1)>> \o SplitFrom(s, TokenEnd(s, i))

\* str.split(): the maximal runs of non-whitespace
Split(s) == SplitFrom(s, 1)

RECURSIVE JoinTokens(_)
\* " ".join(tokens)
JoinTokens(tokens) ==
    IF tokens = <<>> THEN <<>>
    ELSE IF Len(tokens) = 1 THEN tokens[1]
         ELSE tokens[1] \o <<" ">> \o JoinTokens(Tail(tokens))

\* a strip of one leading zero only
StripOneZero(token) ==
    IF token # <<>> /\ Head(token) = "0" THEN Tail(token) ELSE token

\* token.lstrip("0")
StripZeros(token) == LStrip(token, {"0"})

\* " ".join(token.lstrip("0") for token in column.split())
StripTokens(s) == JoinTokens([k \in 1..Len(Split(s)) |-> StripZeros(Split(s)[k])])

\* column.strip().strip('"').strip("'").lower().strip()
TrimLower(s) ==
    Strip(Lower(Strip(Strip(Strip(s, Whitespace), {"\""}), {"'"})), Whitespace)

\* lines 28-37: the ten substitutions, in order
Substitute(s) ==
    LET s1  == ReSub(<<"\n">>, <<" ">>, s)
        s2  == ReSubWord(<<"n", "/", "a">>, <<>>, s1)
        s3  == ReSubWord(<<"n", "a">>, <<>>, s2)
        s4  == ReSub(<<"/">>, <<" ">>, s3)
        s5  == ReSub(<<"-">>, <<" ">>, s4)
        s6  == ReSub(<<"'">>, <<>>, s5)
        s7  == ReSub(<<",">>, <<>>, s6)
        s8  == ReSub(<<":">>, <<" ">>, s7)
        s9  == ReSubWord(<<"l", "o", "c", "a", "l">>, <<>>, s8)
    IN  CollapseSpaces(s9)

\* the normalizer without its empty-to-None mapping
preProcessKeepEmpty(s) == StripTokens(TrimLower(Substitute(s)))

preProcess(s) ==
    LET r == StripTokens(TrimLower(Substitute(s)))
    IN  IF r = <<>> THEN None ELSE r

-----------------------------------------------------------------------------
(* The normalizer on its own: preProcess applied once, then to its result *)

\* the fragments raw field values are built from
Pieces == { <<"l", "o", "c", "a", "l">>, <<"n">>, <<"a">>, <<"N">>, <<"0">>,
            <<" ">>, <<"\n">>, <<"\t">>, <<"/">>, <<"-">>, <<"'">>, <<",">>,
            <<":">>, <<"\"">> }

MaxPieces == 3

RECURSIVE Flatten(_)
Flatten(ps) == IF ps = <<>> THEN <<>> ELSE Head(ps) \o Flatten(Tail(ps))

\* every string made of at most MaxPieces fragments
Inputs == UNION { { Flatten(ps) : ps \in [1..n -> Pieces] } : n \in 0..MaxPieces }

IdleMain ==
    /\ pc = "idle" /\ header = <<>> /\ messy = <<>> /\ canon = <<>>
    /\ settings0 = "absent" /\ training0 = "absent"
    /\ settingsFile = "absent" /\ trainingFile = "absent"
    /\ data_1 = <<>> /\ data_2 = <<>> /\ calls = <<>>
    /\ linked_records = <<>> /\ match = <<>> /\ output = <<>>
    /\ outHeader = <<>> /\ error = NoError

NormInit ==
    /\ npc = "in"
    /\ column \in Inputs
    /\ once = None
    /\ twice = None
    /\ IdleMain

\* a caller's preProcess(v)
Normalize ==
    /\ npc = "in"
    /\ once' = preProcess(column)
    /\ npc' = "once"
    /\ UNCHANGED <<column, twice>>
    /\ UNCHANGED mainVars

\* preProcess applied to a value preProcess returned
Renormalize ==
    /\ npc = "once"
    /\ once # None
    /\ twice' = preProcess(once)
    /\ npc' = "twice"
    /\ UNCHANGED <<column, once>>
    /\ UNCHANGED mainVars

NormNext == Normalize \/ Renormalize

SpecNorm == NormInit /\ [][NormNext]_vars

-----------------------------------------------------------------------------
(* Files, records and dictionaries of main() *)

\* sys.argv[1] and the packaged data/opdr_local.csv
left_file  == <<"m", ".", "c", "s", "v">>
right_file == <<"d", "a", "t", "a", "/", "o", ".", "c", "s", "v">>

DigitChar == <<"0", "1", "2", "3", "4", "5", "6", "7", "8", "9">>

RECURSIVE Str(_)
\* str(i) for a row index
Str(i) ==
    IF i < 10 THEN <<DigitChar[i + 1]>>
    ELSE Str(i \div 10) \o <<DigitChar[(i % 10) + 1]>>

\* str(filename) + str(i)
RecordId(filename, i) == filename \o Str(i)

Range(f) == { f[x] : x \in DOMAIN f }

\* dict.get(key, default)
Get(d, key, default) == IF key \in DOMAIN d THEN d[key] ELSE default

\* the dictionary d after d.update(e)
Update(d, e) == [k \in DOMAIN d \cup DOMAIN e |->
                    IF k \in DOMAIN e THEN e[k] ELSE d[k]]

\* {k: preProcess(v) for k, v in row.items()}
CleanRow(row) == [k \in DOMAIN row |-> preProcess(row[k])]

\* the loop of readData / readMessyData over rows already cleaned:
\* data_d[str(filename) + str(i)] = row i, a later row replacing an earlier one
DataDict(filename, rows) ==
    [id \in { RecordId(filename, i - 1) : i \in 1..Len(rows) } |->
        LET last == CHOOSE i \in 1..Len(rows) :
                        /\ RecordId(filename, i - 1) = id
                        /\ \A j \in (i + 1)..Len(rows) :
                               RecordId(filename, j - 1) # id
        IN  rows[last]]

\* readData(filename)
readData(filename, rows) ==
    DataDict(filename, [i \in 1..Len(rows) |-> CleanRow(rows[i])])

\* the columns readMessyData looks up, in the order it looks them up
RequiredColumns == <<"union_name", "union_city", "union_state">>

\* lines 71-75: the aliases added to a cleaned messy row
Aliased(clean_row) ==
    Update(clean_row,
           [k \in {"abbr_local_name", "full_local_name", "city", "state"} |->
               CASE k = "city"  -> clean_row["union_city"]
                 [] k = "state" -> clean_row["union_state"]
                 [] OTHER       -> clean_row["union_name"]])

\* the first required column a row lacks; 0 when it has them all
FirstMissing(row) ==
    IF \A n \in 1..Len(RequiredColumns) : RequiredColumns[n] \in DOMAIN row
    THEN 0
    ELSE CHOOSE n \in 1..Len(RequiredColumns) :
            /\ RequiredColumns[n] \notin DOMAIN row
            /\ \A m \in 1..(n - 1) : RequiredColumns[m] \in DOMAIN row

\* a loader that reports a malformed row without naming the column
MessyErrorUnnamed(rows) ==
    IF rows = <<>> \/ FirstMissing(rows[1]) = 0 THEN NoError
    ELSE <<"ValueError", "malformed row">>

\* the KeyError readMessyData raises, on its first row, or NoError
MessyError(rows) ==
    IF rows = <<>> \/ FirstMissing(rows[1]) = 0 THEN NoError
    ELSE <<"KeyError", RequiredColumns[FirstMissing(rows[1])]>>

\* readMessyData(filename) when it raises nothing
readMessyData(filename, rows) ==
    DataDict(filename, [i \in 1..Len(rows) |-> Aliased(CleanRow(rows[i]))])

\* a test of the wrong file
SettingsExistWrongFile == trainingFile # "absent"

\* os.path.exists(settings_file)
SettingsExist == settingsFile # "absent"

\* os.path.exists(training_file)
TrainingExist == trainingFile # "absent"

RECURSIVE MatchOf(_, _)
\* lines 208-211: match, built from linked_records over data_2
MatchOf(links, d2) ==
    IF links = <<>> THEN <<>>
    ELSE LET l == links[Len(links)]
         IN  Update(MatchOf(SubSeq(links, 1, Len(links) - 1), d2),
                    [s \in {l[1][1]} |->
                        [k \in {"canon_id", "Link Score"} |->
                            IF k = "canon_id" THEN d2[l[1][2]]["f_num"]
                            ELSE l[2]]])

\* what csv.DictWriter writes for a value: None becomes the empty string
Cell(v) == IF v = None THEN <<>> ELSE v

\* line 218: fieldnames
Fieldnames(hdr) == <<"canon_id", "Link Score">> \o hdr

\* lines 226-230: the row written for row row_id of the messy file
OutputRow(hdr, row, row_id, m) ==
    LET record_id       == RecordId(left_file, row_id)
        cluster_details == Get(m, record_id, <<>>)
        updated         == Update(row, cluster_details)
    IN  [j \in 1..Len(Fieldnames(hdr)) |->
            Cell(Get(updated, Fieldnames(hdr)[j], <<>>))]

-----------------------------------------------------------------------------
(* One run of main() *)

MaxMessy == 2
MaxCanon == 2

SeqsUpTo(S, n) == UNION { [1..k -> S] : k \in 0..n }

\* headers of the messy CSV: complete, lacking a required column, and the
\* header of an earlier output of this program
Headers == { RequiredColumns,
             <<"union_name", "union_city">>,
             <<"union_city", "union_state">>,
             <<"canon_id", "Link Score">> \o RequiredColumns }

MessyNames == { <<"L", "o", "c", "a", "l", " ", "0", "7">>, <<"n", "/", "a">> }

\* a data row of the messy CSV, as csv.DictReader yields it
RawRow(hdr, name) ==
    [c \in Range(hdr) |->
        CASE c = "union_name"  -> name
          [] c = "union_city"  -> <<"N", "o", "l", "a">>
          [] c = "union_state" -> <<"L", "A">>
          [] c = "canon_id"    -> <<"F", "7">>
          [] OTHER             -> <<"1">>]

\* data rows of the canonical CSV
CanonRows ==
    { [c \in {"f_num", "abbr_local_name", "full_local_name", "city", "state"} |->
          CASE c = "f_num" -> f
            [] c = "city"  -> <<"N", "o", "l", "a">>
            [] c = "state" -> <<"L", "A">>
            [] OTHER       -> <<"L", "o", "c", "a", "l", " ", "7">>]
      : f \in { <<"F", "0", "7">>, <<"1", "2">> } }

\* scores the linker attaches to a pair
Scores == { <<"0", ".", "9">>, <<"0", ".", "5">> }

Init ==
    /\ npc = "idle" /\ column = <<>> /\ once = None /\ twice = None
    /\ pc = "start"
    /\ header \in Headers
    /\ \E names \in SeqsUpTo(MessyNames, MaxMessy) :
           messy = [k \in 1..Len(names) |-> RawRow(header, names[k])]
    /\ canon \in SeqsUpTo(CanonRows, MaxCanon)
    /\ settings0 \in {"absent", "old"}
    /\ training0 \in {"absent", "old"}
    /\ settingsFile = settings0
    /\ trainingFile = training0
    /\ data_1 = <<>> /\ data_2 = <<>>
    /\ calls = <<>>
    /\ linked_records = <<>> /\ match = <<>>
    /\ output = <<>> /\ outHeader = <<>>
    /\ error = NoError

\* the run ends with an exception
Raise(e) == pc' = "failed" /\ error' = e

\* line 115: data_1 = readMessyData(left_file)
ReadMessy ==
    /\ pc = "start"
    /\ IF MessyError(messy) # NoError
       THEN Raise(MessyError(messy)) /\ UNCHANGED data_1
       ELSE /\ data_1' = readMessyData(left_file, messy)
            /\ pc' = "read_canon"
            /\ UNCHANGED error
    /\ UNCHANGED <<header, messy, canon, settings0, training0, settingsFile,
                   trainingFile, data_2, calls, linked_records, match,
                   output, outHeader>>
    /\ UNCHANGED normVars

\* line 116: data_2 = readData(right_file)
ReadCanon ==
    /\ pc = "read_canon"
    /\ data_2' = readData(right_file, canon)
    /\ pc' = "branch"
    /\ UNCHANGED <<header, messy, canon, settings0, training0, settingsFile,
                   trainingFile, data_1, calls, linked_records, match,
                   output, outHeader, error>>
    /\ UNCHANGED normVars

\* a call into dedupe: it is recorded, and returns (to pc next) or raises
Call(name, next) ==
    /\ calls' = Append(calls, name)
    /\ \/ pc' = next /\ UNCHANGED error
       \/ Raise(<<"dedupe", name>>)

\* lines 130-133: the settings file exists, the linker is read from it
LoadSettings ==
    /\ pc = "branch"
    /\ SettingsExist
    /\ Call("StaticRecordLink", "join")
    /\ UNCHANGED <<header, messy, canon, settings0, training0, settingsFile,
                   trainingFile, data_1, data_2, linked_records, match,
                   output, outHeader>>
    /\ UNCHANGED normVars

\* lines 135-152: no settings file, a new linker
NewLinker ==
    /\ pc = "branch"
    /\ ~SettingsExist
    /\ Call("RecordLink", "prepare")
    /\ UNCHANGED <<header, messy, canon, settings0, training0, settingsFile,
                   trainingFile, data_1, data_2, linked_records, match,
                   output, outHeader>>
    /\ UNCHANGED normVars

\* lines 157-164: prepare_training, with the training file when it exists
PrepareTraining ==
    /\ pc = "prepare"
    /\ IF TrainingExist
       THEN Call("prepare_training(training_file)", "label")
       ELSE Call("prepare_training", "label")
    /\ UNCHANGED <<header, messy, canon, settings0, training0, settingsFile,
                   trainingFile, data_1, data_2, linked_records, match,
                   output, outHeader>>
    /\ UNCHANGED normVars

\* line 174: dedupe.console_label(linker)
ConsoleLabel ==
    /\ pc = "label"
    /\ Call("console_label", "train")
    /\ UNCHANGED <<header, messy, canon, settings0, training0, settingsFile,
                   trainingFile, data_1, data_2, linked_records, match,
                   output, outHeader>>
    /\ UNCHANGED normVars

\* a train whose failure is recorded but does not end the run
TrainSwallowed ==
    /\ pc = "train"
    /\ calls' = Append(calls, "train")
    /\ pc' = "write_training"
    /\ \/ UNCHANGED error
       \/ error' = <<"dedupe", "train">>
    /\ UNCHANGED <<header, messy, canon, settings0, training0, settingsFile,
                   trainingFile, data_1, data_2, linked_records, match,
                   output, outHeader>>
    /\ UNCHANGED normVars

\* line 176: linker.train()
Train ==
    /\ pc = "train"
    /\ Call("train", "write_training")
    /\ UNCHANGED <<header, messy, canon, settings0, training0, settingsFile,
                   trainingFile, data_1, data_2, linked_records, match,
                   output, outHeader>>
    /\ UNCHANGED normVars

\* lines 179-180: the training file is opened for writing, which empties
\* it, and write_training fills it or raises
WriteTraining ==
    /\ pc = "write_training"
    /\ calls' = Append(calls, "write_training")
    /\ \/ /\ trainingFile' = "new"
          /\ pc' = "write_settings"
          /\ UNCHANGED error
       \/ /\ trainingFile' = "partial"
          /\ Raise(<<"dedupe", "write_training">>)
    /\ UNCHANGED <<header, messy, canon, settings0, training0, settingsFile,
                   data_1, data_2, linked_records, match, output, outHeader>>
    /\ UNCHANGED normVars

\* lines 185-186: the same for the settings file
WriteSettings ==
    /\ pc = "write_settings"
    /\ calls' = Append(calls, "write_settings")
    /\ \/ /\ settingsFile' = "new"
          /\ pc' = "join"
          /\ UNCHANGED error
       \/ /\ settingsFile' = "partial"
          /\ Raise(<<"dedupe", "write_settings">>)
    /\ UNCHANGED <<header, messy, canon, settings0, training0, trainingFile,
                   data_1, data_2, linked_records, match, output, outHeader>>
    /\ UNCHANGED normVars

RECURSIVE LinksFrom(_, _)
\* the pairs of an assignment a of messy rows to canonical rows, as
\* ((source, canonical), score), by ascending messy row
LinksFrom(a, i) ==
    IF i > Len(a) THEN <<>>
    ELSE IF a[i] = <<>> THEN LinksFrom(a, i + 1)
         ELSE << << <<RecordId(left_file, i - 1),
                      RecordId(right_file, a[i][1] - 1)>>, a[i][2] >> >>
              \o LinksFrom(a, i + 1)

\* what join may return under the many-to-one constraint: each messy record
\* the source of at most one pair, linked to any canonical record
JoinResults ==
    { LinksFrom(a, 1) :
        a \in [1..Len(messy) -> {<<>>} \cup ((1..Len(canon)) \X Scores)] }

\* line 200: linked_records = linker.join(data_1, data_2, 0.0, ...)
Join ==
    /\ pc = "join"
    /\ calls' = Append(calls, "join")
    /\ \/ /\ linked_records' \in JoinResults
          /\ pc' = "match"
          /\ UNCHANGED error
       \/ /\ Raise(<<"dedupe", "join">>)
          /\ UNCHANGED linked_records
    /\ UNCHANGED <<header, messy, canon, settings0, training0, settingsFile,
                   trainingFile, data_1, data_2, match, output, outHeader>>
    /\ UNCHANGED normVars

\* lines 208-211
BuildMatch ==
    /\ pc = "match"
    /\ match' = MatchOf(linked_records, data_2)
    /\ pc' = "write_output"
    /\ UNCHANGED <<header, messy, canon, settings0, training0, settingsFile,
                   trainingFile, data_1, data_2, calls, linked_records,
                   output, outHeader, error>>
    /\ UNCHANGED normVars

\* lines 213-230: the header, then one row for every row read again from
\* the messy file
WriteOutput ==
    /\ pc = "write_output"
    /\ outHeader' = Fieldnames(header)
    /\ output' = [k \in 1..Len(messy) |->
                     OutputRow(header, messy[k], k - 1, match)]
    /\ pc' = "done"
    /\ UNCHANGED <<header, messy, canon, settings0, training0, settingsFile,
                   trainingFile, data_1, data_2, calls, linked_records,
                   match, error>>
    /\ UNCHANGED normVars

Next ==
    \/ ReadMessy
    \/ ReadCanon
    \/ LoadSettings
    \/ NewLinker
    \/ PrepareTraining
    \/ ConsoleLabel
    \/ Train
    \/ WriteTraining
    \/ WriteSettings
    \/ Join
    \/ BuildMatch
    \/ WriteOutput

Spec == Init /\ [][Next]_vars

-----------------------------------------------------------------------------
(* Properties of the normalizer *)

AllWhitespace(s) == \A i \in 1..Len(s) : s[i] \in Whitespace

\* C1: preProcess is idempotent: whenever preProcess(s) is a string,
\* preProcess(preProcess(s)) equals preProcess(s).
C1_Idempotent == npc = "twice" => twice = once

\* C7: preProcess never returns the empty string (it returns None or a
\* non-empty string), and an empty or whitespace-only input returns None.
C7_NeverEmpty ==
    /\ npc # "in" => once # <<>> /\ (AllWhitespace(column) => once = None)
    /\ npc = "twice" => twice # <<>>

\* an input that is not empty but cleans up to nothing has been normalized
C7_Witness ==
    /\ npc = "once"
    /\ column # <<>>
    /\ ~AllWhitespace(column)
    /\ once = None

\* C8: no whitespace-delimited token of a string returned by preProcess
\* begins with the character "0".
C8_NoLeadingZero ==
    (npc # "in" /\ once # None) =>
        \A k \in 1..Len(Split(once)) : Head(Split(once)[k]) # "0"

\* a token with two leading zeros was normalized to a string
C8_Witness ==
    /\ npc = "once"
    /\ column = <<"0", "0", "a">>
    /\ once = <<"a">>

\* C10: a string returned by preProcess holds no two consecutive spaces and
\* neither begins nor ends with a whitespace character.
C10_WhitespaceNormal ==
    (npc # "in" /\ once # None) =>
        /\ Head(once) \notin Whitespace
        /\ once[Len(once)] \notin Whitespace
        /\ \A i \in 1..(Len(once) - 1) : ~(once[i] = " " /\ once[i + 1] = " ")

-----------------------------------------------------------------------------
(* Properties of the run *)

\* the messy row (1-based) whose record id is id
RowOf(id) == CHOOSE k \in 1..Len(messy) : RecordId(left_file, k - 1) = id

\* the canonical row (1-based) whose record id is id
CanonOf(id) == CHOOSE c \in 1..Len(canon) : RecordId(right_file, c - 1) = id

\* the linker returned a pair whose source is messy row k
Linked(k) ==
    \E i \in 1..Len(linked_records) :
        linked_records[i][1][1] = RecordId(left_file, k - 1)

FilesUntouched == settingsFile = settings0 /\ trainingFile = training0

\* every call named b comes after a call named a
Before(a, b) ==
    \A j \in 1..Len(calls) :
        calls[j] = b => \E i \in 1..(j - 1) : calls[i] = a

\* C2: for every matched messy row the canon_id written is the f_num of the
\* linked canonical record exactly as it stands in the canonical CSV, and the
\* Link Score is the score the linker returned for the pair.
C2_CanonIdIsFNum ==
    pc = "done" =>
        \A i \in 1..Len(linked_records) :
            LET l == linked_records[i]
                k == RowOf(l[1][1])
                c == CanonOf(l[1][2])
            IN  /\ output[k][1] = canon[c]["f_num"]
                /\ output[k][2] = l[2]

\* C3: the output has one row per messy data row, in order, the k-th carrying
\* the k-th input row's raw values in all the input's columns, after the two
\* columns canon_id and Link Score, whatever links the linker returned.
C3_OutputMirrorsInput ==
    pc = "done" =>
        /\ outHeader = <<"canon_id", "Link Score">> \o header
        /\ Len(output) = Len(messy)
        /\ \A k \in 1..Len(messy) :
               /\ Len(output[k]) = Len(header) + 2
               /\ \A j \in 1..Len(header) :
                      output[k][j + 2] = messy[k][header[j]]

\* C4: a messy row that is the source of no returned pair is written with
\* empty canon_id and Link Score, and a row has a value in either column
\* only if the linker returned a pair whose source is that row.
C4_UnmatchedRowsEmpty ==
    pc = "done" =>
        \A k \in 1..Len(messy) :
            /\ ~Linked(k) => output[k][1] = <<>> /\ output[k][2] = <<>>
            /\ (output[k][1] # <<>> \/ output[k][2] # <<>>) => Linked(k)

\* C5: when the settings file exists at start-up the run makes none of
\* prepare_training, console_label, train, write_training, write_settings:
\* it loads the linker from the settings file, then joins, and leaves the
\* settings file and the training file as they were.
C5_SettingsShortCircuit ==
    settings0 # "absent" =>
        /\ calls \in { <<>>, <<"StaticRecordLink">>,
                       <<"StaticRecordLink", "join">> }
        /\ FilesUntouched

\* a run that found the settings file has written its output
C5_Witness ==
    /\ settings0 # "absent"
    /\ training0 = "absent"
    /\ pc = "done"
    /\ calls = <<"StaticRecordLink", "join">>

\* the header lacks one of union_name, union_city, union_state
LacksRequired ==
    \E n \in 1..Len(RequiredColumns) : RequiredColumns[n] \notin Range(header)

\* the run failed while loading, with a KeyError naming a column the header
\* lacks, having called nothing and written nothing
FailedOnLoad ==
    /\ pc = "failed"
    /\ Len(error) = 2
    /\ error[1] = "KeyError"
    /\ error[2] \in Range(RequiredColumns) \ Range(header)
    /\ calls = <<>>
    /\ FilesUntouched
    /\ outHeader = <<>> /\ output = <<>>

C9_WritesAfterTraining ==
    settings0 = "absent" =>
        /\ Before("console_label", "write_training")
        /\ Before("train", "write_training")
        /\ Before("write_training", "write_settings")
        /\ trainingFile # training0 => "write_training" \in Range(calls)
        /\ settingsFile # settings0 => "write_settings" \in Range(calls)
        /\ error = <<"dedupe", "train">> =>
               /\ FilesUntouched
               /\ "write_training" \notin Range(calls)
               /\ "write_settings" \notin Range(calls)

\* a training run wrote both files and finished
C9_Witness ==
    /\ settings0 = "absent"
    /\ pc = "done"
    /\ trainingFile = "new"
    /\ settingsFile = "new"
    /\ calls[Len(calls) - 2] = "write_training"

====
